---- MODULE Spec2Model ----
(***************************************************************************)
(* slack_emoji_exporter.py as a state machine.                             *)
(*                                                                         *)
(* Strings (emoji names, URLs, file names) are sequences of one-character  *)
(* strings, so that prefix tests, URL parsing, extension splitting and     *)
(* glob matching are computed the way the Python code computes them.       *)
(* The output directory is a flat set of file names; a path is modelled    *)
(* by its file name (os.path.join(output_dir, ...) only prepends the       *)
(* directory, which is the same for every file of a run).                  *)
(***************************************************************************)
EXTENDS Integers, Sequences, FiniteSets, TLC

(***************************************************************************)
(* String helpers (Python str methods used by the program)                 *)
(***************************************************************************)

\* s.startswith(p)
startswith(s, p) ==
    /\ Len(s) >= Len(p)
    /\ \A i \in 1..Len(p) : s[i] = p[i]

\* s.endswith(p); used by the glob patterns "*.ext"
endswith(s, p) ==
    /\ Len(s) >= Len(p)
    /\ \A i \in 1..Len(p) : s[Len(s) - Len(p) + i] = p[i]

\* s.find(c) as a 1-based index, 0 when c does not occur
find(s, c) ==
    IF \E i \in 1..Len(s) : s[i] = c
    THEN CHOOSE i \in 1..Len(s) : s[i] = c /\ \A j \in 1..(i - 1) : s[j] # c
    ELSE 0

\* s.rfind(c) as a 1-based index, 0 when c does not occur
rfind(s, c) ==
    IF \E i \in 1..Len(s) : s[i] = c
    THEN CHOOSE i \in 1..Len(s) : s[i] = c /\ \A j \in (i + 1)..Len(s) : s[j] # c
    ELSE 0

\* s[from:] with a 1-based first index
Tail_from(s, from) == SubSeq(s, from, Len(s))

\* s[:upto] : the characters before 1-based index upto
Head_before(s, upto) == SubSeq(s, 1, upto - 1)

ALIAS_PREFIX == <<"a", "l", "i", "a", "s", ":">>

\* url.startswith("alias:")
is_alias(url) == startswith(url, ALIAS_PREFIX)

SchemeChars == {"h", "t", "p", "s", "a", "l", "i", "x", "e", "g", "n", "w", "b", "m"}

\* urllib.parse.urlparse(url).path : the scheme up to the first ":" is cut
\* when it is made of scheme characters, then a "//netloc" up to the next
\* "/", "?" or "#", then the fragment after "#", then the query after "?".
url_after_scheme(url) ==
    LET i == find(url, ":") IN
    IF i > 1 /\ \A j \in 1..(i - 1) : url[j] \in SchemeChars
    THEN Tail_from(url, i + 1)
    ELSE url

url_after_netloc(rest) ==
    IF Len(rest) >= 2 /\ rest[1] = "/" /\ rest[2] = "/"
    THEN LET body == Tail_from(rest, 3)
             stops == {i \in 1..Len(body) : body[i] \in {"/", "?", "#"}}
         IN  IF stops = {} THEN <<>>
             ELSE Tail_from(body, CHOOSE i \in stops : \A j \in stops : i <= j)
    ELSE rest

cut_at(s, c) == IF find(s, c) = 0 THEN s ELSE Head_before(s, find(s, c))

urlparse_path(url) == cut_at(cut_at(url_after_netloc(url_after_scheme(url)), "#"), "?")

\* os.path.splitext(p)[1] : the suffix from the last "." of the last path
\* component, unless that component has only leading dots before it.
splitext_ext(p) ==
    LET sepIndex == rfind(p, "/")
        dotIndex == rfind(p, ".")
    IN  IF dotIndex > sepIndex
           /\ \E k \in (sepIndex + 1)..(dotIndex - 1) : p[k] # "."
        THEN Tail_from(p, dotIndex)
        ELSE <<>>

DEFAULT_EXT == <<".", "p", "n", "g">>

\* download_emoji: the extension of the URL path, ".png" when there is none
extension_of(url) ==
    LET extension == splitext_ext(urlparse_path(url)) IN
    IF extension = <<>> THEN DEFAULT_EXT ELSE extension

\* Faulty variant: the file is named after the extension alone
output_file_unnamed(name, url) == extension_of(url)
\* download_emoji: output_file = f"{name}{extension}" inside output_dir
output_file(name, url) == name \o extension_of(url)

\* pathlib.PurePath.stem of a file name
stem(fname) ==
    LET i == rfind(fname, ".") IN
    IF 1 < i /\ i < Len(fname) THEN Head_before(fname, i) ELSE fname

\* upload_emojis: the glob patterns, in the order the code scans them
GLOB_EXTS == << <<".", "p", "n", "g">>, <<".", "j", "p", "g">>,
                <<".", "j", "p", "e", "g">>, <<".", "g", "i", "f">> >>

\* Path(emoji_dir).glob("*" + ext) : the files of the directory matching
glob(files, ext) == {f \in files : endswith(f, ext)}


(***************************************************************************)
(* Sample inputs                                                           *)
(***************************************************************************)

N_SMILE == <<"s">>
N_PARTY == <<"p">>
Names == {N_SMILE, N_PARTY}

U_PNG   == <<"h", ":", "/", "/", "x", "/", "e", ".", "p", "n", "g">>
U_IMAGE == <<"h", ":", "/", "/", "x", ".", "i", "/", "i", "m">>
U_GIFQ  == <<"h", ":", "/", "/", "x", "/", "e", ".", "g", "i", "f", "?", "v", ".", "b">>
U_WEBP  == <<"h", ":", "/", "/", "x", "/", "e", ".", "w", "e", "b", "p">>
U_ALIAS == <<"a", "l", "i", "a", "s", ":", "s">>
Urls == {U_IMAGE, U_WEBP, U_ALIAS}

\* A file put into the download directory by hand before any run
F_MANUAL == <<"m", ".", "g", "i", "f">>

\* Ordered name -> url mappings (a Python dict keeps insertion order and has
\* unique keys): sequences of <<name, url>> pairs with distinct names.
Mappings(names, urls, maxlen) ==
    UNION {{m \in [1..k -> names \X urls] :
               \A i, j \in 1..k : i # j => m[i][1] # m[j][1]} : k \in 0..maxlen}

\* The "emoji" field of the directory endpoint's response: the custom emoji
\* of the source account, aliases included
Responses == Mappings(Names, Urls, Cardinality(Names))

NONE == "none"

\* The list file: absent, not parsable as JSON, or holding a catalog
MISSING == [kind |-> "missing", data |-> <<>>]
CORRUPT == [kind |-> "corrupt", data |-> <<>>]
JsonFile(catalog) == [kind |-> "json", data |-> catalog]

\* A list file left in the working directory by an earlier session
STALE == JsonFile(<< <<N_PARTY, U_PNG>> >>)

(***************************************************************************)
(* State                                                                   *)
(***************************************************************************)
VARIABLES
    remote,       \* the source account's emoji mapping (never changed here)
    listFile,     \* the list file: MISSING, CORRUPT or JsonFile(catalog)
    dir,          \* the download directory: the set of its file names
    command,      \* args.command of the running process, "idle" between runs
    pc,           \* position of the main thread
    emoji_list,   \* the catalog held by main / download_emojis
    poolSize,     \* max_workers of the ThreadPoolExecutor
    task,         \* per submitted future: its state
    joined,       \* number of futures whose result() has been taken
    downloaded,   \* download_emojis: the list of (name, output_file) results
    emoji_files,  \* upload_emojis: the scanned files, in scan order
    idx,          \* upload_emojis: number of files whose loop body has finished
    uploaded,     \* upload_emojis: counter
    failed,       \* upload_emojis: counter
    attempts,     \* upload_emoji: counter
    backoff,      \* upload_emoji: current backoff in seconds
    result,       \* return value of the last upload_emoji call (FALSE before)
    returned,     \* return value of upload_emojis, -1 until it returns
    sleeps,       \* history: time.sleep(backoff) durations of the current call
    seen,         \* history: retryable responses received by the current call
    last,         \* history: the last response received by the current call
    calls,        \* history: names upload_emoji was invoked with, this run
    results,      \* history: return values of the finished upload_emoji calls
    paced,        \* history: number of pacing sleeps of this run
    delay,        \* the pacing sleep just made, in tenths of a second (else 0)
    apiCalls,     \* history: directory endpoint requests of this run
    stages,       \* history: the stages entered by this run, in order
    listStatus,   \* history: outcome of this run's directory request, or NONE
    dir0,         \* history: the directory when the run started
    listFile0,    \* history: the list file when the run started
    touched,      \* history: files created or truncated by this run
    overtaken,    \* history: a task finished before one submitted earlier
    listed,       \* history: the list file was written by list_emojis
    clean         \* history: see CleanDownload

fsVars   == <<remote, listFile, dir>>
dlVars   == <<task, joined, downloaded>>
upVars   == <<emoji_files, idx, uploaded, failed, returned, calls, results, paced, delay>>
callVars == <<attempts, backoff, result, sleeps, seen, last>>
histVars == <<apiCalls, stages, listStatus, dir0, listFile0, touched, overtaken, listed,
             clean>>
vars == <<remote, listFile, dir, command, pc, emoji_list, poolSize, task, joined, downloaded,
          emoji_files, idx, uploaded, failed, attempts, backoff, result, returned,
          sleeps, seen, last, calls, results, paced, delay, apiCalls, stages,
          listStatus, dir0, listFile0, touched, overtaken, listed, clean>>


(***************************************************************************)
(* Command line (setup_argparse) and process start                         *)
(***************************************************************************)

Commands == {"", "list", "download", "upload", "export"}

\* The attributes argparse puts on the namespace for each subcommand
ArgsOf(cmd) ==
    {"output_dir", "command"} \cup
    CASE cmd = "list"     -> {"source_token", "output_file"}
      [] cmd = "download" -> {"source_token", "emoji_list"}
      [] cmd = "upload"   -> {"cookie", "token", "team_id", "emoji_dir"}
      [] cmd = "export"   -> {"source_token", "cookie", "team_id"}
      [] OTHER            -> {}

\* Reading args.<a> for every a of needed: an attribute the subparser does
\* not define raises AttributeError
HasArgs(cmd, needed) == needed \subseteq ArgsOf(cmd)

Terminated == pc \in {"done", "exit1", "crashed"}

\* Exit status of a terminated process: sys.exit(1) and an uncaught
\* exception both end it with status 1
ExitCode == IF pc = "done" THEN 0 ELSE 1

\* The responses after which upload_emoji may try again
RetryResponses == {"ratelimited", "http429", "http_error"}
NoneSeen == [r \in RetryResponses |-> 0]

NoCall ==
    /\ attempts = 0 /\ backoff = 0 /\ result = FALSE
    /\ sleeps = <<>> /\ seen = NoneSeen /\ last = NONE

FreshProcess ==
    /\ emoji_list = <<>>
    /\ task = <<>> /\ joined = 0 /\ downloaded = <<>>
    /\ emoji_files = <<>> /\ idx = 0 /\ uploaded = 0 /\ failed = 0
    /\ returned = -1 /\ calls = <<>> /\ results = <<>> /\ paced = 0 /\ delay = 0
    /\ NoCall
    /\ apiCalls = 0 /\ stages = <<>> /\ listStatus = NONE /\ touched = {}
    /\ overtaken = FALSE

max_workers == 10

Init ==
    /\ remote \in Responses
    /\ listFile \in {MISSING, CORRUPT, STALE}
    /\ dir \in {{}, {F_MANUAL}}
    /\ command = "idle" /\ pc = "idle"
    /\ poolSize = max_workers
    /\ FreshProcess
    /\ dir0 = dir /\ listFile0 = listFile
    /\ listed = FALSE /\ clean = FALSE

\* The user runs the program: python slack_emoji_exporter.py <cmd> ...
Start(cmd) ==
    /\ pc = "idle" \/ Terminated
    /\ command' = cmd /\ pc' = "main"
    /\ emoji_list' = <<>>
    /\ task' = <<>> /\ joined' = 0 /\ downloaded' = <<>>
    /\ emoji_files' = <<>> /\ idx' = 0 /\ uploaded' = 0 /\ failed' = 0
    /\ returned' = -1 /\ calls' = <<>> /\ results' = <<>> /\ paced' = 0 /\ delay' = 0
    /\ attempts' = 0 /\ backoff' = 0 /\ result' = FALSE
    /\ sleeps' = <<>> /\ seen' = NoneSeen /\ last' = NONE
    /\ apiCalls' = 0 /\ stages' = <<>> /\ listStatus' = NONE /\ touched' = {}
    /\ overtaken' = FALSE
    /\ dir0' = dir /\ listFile0' = listFile
    /\ UNCHANGED <<fsVars, poolSize, listed, clean>>

(***************************************************************************)
(* main                                                                    *)
(***************************************************************************)

Goto(next) ==
    /\ pc' = next
    /\ UNCHANGED <<fsVars, command, emoji_list, poolSize, dlVars, upVars, callVars,
                   histVars>>

\* if not args.command: parser.print_help(); sys.exit(1)
MainNoCommand ==
    /\ pc = "main" /\ command = ""
    /\ Goto("exit1")

\* args.command == "list"
MainList ==
    /\ pc = "main" /\ command = "list"
    /\ Goto(IF HasArgs(command, {"source_token", "output_file"})
            THEN "list_emojis" ELSE "crashed")

\* Faulty variant: the list is fetched again even when the file exists
MainDownload_always_lists ==
    /\ pc = "main" /\ command = "download"
    /\ Goto(IF ~HasArgs(command, {"emoji_list", "source_token"}) THEN "crashed"
            ELSE "list_emojis")

\* args.command == "download": os.path.exists(args.emoji_list) decides
\* between list_emojis and json.load
MainDownload ==
    /\ pc = "main" /\ command = "download"
    /\ Goto(IF ~HasArgs(command, {"emoji_list", "source_token"}) THEN "crashed"
            ELSE IF listFile = MISSING THEN "list_emojis" ELSE "load")

\* args.command == "upload"
MainUpload ==
    /\ pc = "main" /\ command = "upload"
    /\ Goto(IF HasArgs(command, {"team_id", "cookie", "token", "emoji_dir"})
            THEN "upload_emojis" ELSE "crashed")

\* args.command == "export": first statement
MainExport ==
    /\ pc = "main" /\ command = "export"
    /\ Goto(IF HasArgs(command, {"source_token"}) THEN "list_emojis" ELSE "crashed")

\* export, third statement: upload_emojis(args.team_id, args.cookie,
\* args.token, args.output_dir); the arguments are evaluated before the call
ExportUploadArgs == {"team_id", "cookie", "token", "output_dir"}

MainExportUpload ==
    /\ pc = "export_upload"
    /\ Goto(IF HasArgs(command, ExportUploadArgs) THEN "upload_emojis" ELSE "crashed")

\* download: with open(args.emoji_list) as f: emoji_list = json.load(f)
MainLoad ==
    /\ pc = "load"
    /\ IF listFile.kind = "json"
       THEN pc' = "download_emojis" /\ emoji_list' = listFile.data
       ELSE pc' = "crashed" /\ UNCHANGED emoji_list
    /\ UNCHANGED <<fsVars, command, poolSize, dlVars, upVars, callVars, histVars>>

(***************************************************************************)
(* list_emojis                                                             *)
(***************************************************************************)

\* Faulty variant: no filtering
custom_emojis_unfiltered(data) == data

\* custom_emojis: the entries whose url is not an alias, in dict order
custom_emojis(data) == SelectSeq(data, LAMBDA e : ~is_alias(e[2]))

\* Where main continues after list_emojis returns
AfterList(cmd) == IF cmd = "list" THEN "done" ELSE "download_emojis"

DirectoryFailures == {"http_error", "api_error"}

\* Faulty variant: the failure is printed but the run goes on with an
\* empty catalog
ListEmojisFail_goes_on ==
    /\ pc = "list_emojis"
    /\ \E status \in DirectoryFailures :
         /\ apiCalls' = apiCalls + 1
         /\ stages' = Append(stages, "list")
         /\ listStatus' = status
         /\ pc' = AfterList(command)
    /\ UNCHANGED <<fsVars, command, emoji_list, poolSize, dlVars, upVars, callVars,
                   dir0, listFile0, touched, overtaken, listed, clean>>

\* not response.ok, or not data.get("ok"): print and sys.exit(1)
ListEmojisFail ==
    /\ pc = "list_emojis"
    /\ \E status \in DirectoryFailures :
         /\ apiCalls' = apiCalls + 1
         /\ stages' = Append(stages, "list")
         /\ listStatus' = status
         /\ pc' = "exit1"
    /\ UNCHANGED <<fsVars, command, emoji_list, poolSize, dlVars, upVars, callVars,
                   dir0, listFile0, touched, overtaken, listed, clean>>

\* response.ok and data["ok"]: filter, json.dump to output_file, return
ListEmojisOk ==
    /\ pc = "list_emojis"
    /\ LET data == remote IN
         /\ apiCalls' = apiCalls + 1
         /\ stages' = Append(stages, "list")
         /\ listFile' = JsonFile(custom_emojis(data))
         /\ emoji_list' = custom_emojis(data)
         /\ listStatus' = "ok"
         /\ listed' = TRUE
         /\ pc' = AfterList(command)
    /\ UNCHANGED <<remote, dir, command, poolSize, dlVars, upVars, callVars,
                   dir0, listFile0, touched, overtaken, clean>>


(***************************************************************************)
(* download_emojis and its worker threads (download_emoji)                 *)
(***************************************************************************)

Active == {i \in 1..Len(task) : task[i] \in {"running", "streaming"}}
Finished(i) == task[i] \in {"ok", "failed", "none"}

\* os.makedirs; one executor.submit per entry, in dict order
DownloadEmojis ==
    /\ pc = "download_emojis"
    /\ task' = [i \in 1..Len(emoji_list) |-> "queued"]
    /\ joined' = 0
    /\ downloaded' = <<>>
    /\ stages' = Append(stages, "download")
    /\ pc' = "join"
    /\ UNCHANGED <<fsVars, command, emoji_list, poolSize, upVars, callVars,
                   apiCalls, listStatus, dir0, listFile0, touched, overtaken,
                   listed, clean>>

\* Faulty variant: a thread per work item, whatever the size of the pool
WorkerStart_unbounded(i) ==
    /\ pc = "join"
    /\ task[i] = "queued"
    /\ \A j \in 1..(i - 1) : task[j] # "queued"
    /\ task' = [task EXCEPT ![i] = "running"]
    /\ UNCHANGED <<fsVars, command, pc, emoji_list, poolSize, joined, downloaded,
                   upVars, callVars, histVars>>
\* A pool thread takes the oldest queued work item; the pool never has
\* more than max_workers threads
WorkerStart(i) ==
    /\ pc = "join"
    /\ task[i] = "queued"
    /\ \A j \in 1..(i - 1) : task[j] # "queued"
    /\ Cardinality(Active) < poolSize
    /\ task' = [task EXCEPT ![i] = "running"]
    /\ UNCHANGED <<fsVars, command, pc, emoji_list, poolSize, joined, downloaded,
                   upVars, callVars, histVars>>

\* What requests.get and open(output_file, "wb") can do
FetchOutcomes == {"connect_error", "bad_status", "open_error", "opened"}

\* Task i ends while a task submitted before it has not ended
Overtakes(i) == \E j \in 1..(i - 1) : ~Finished(j)

\* download_emoji up to the opening of the output file: an alias returns
\* None; an exception of requests.get or open, or a non-OK status, is
\* printed and returns None; open(..., "wb") creates or truncates the file
DownloadRequest(i) ==
    /\ pc = "join"
    /\ task[i] = "running"
    /\ LET name == emoji_list[i][1]
           url  == emoji_list[i][2]
       IN  IF is_alias(url)
           THEN /\ task' = [task EXCEPT ![i] = "none"]
                /\ UNCHANGED <<dir, touched>>
           ELSE \E outcome \in FetchOutcomes :
                  IF outcome = "opened"
                  THEN /\ task' = [task EXCEPT ![i] = "streaming"]
                       /\ dir' = dir \cup {output_file(name, url)}
                       /\ touched' = touched \cup {output_file(name, url)}
                  ELSE /\ task' = [task EXCEPT ![i] = "failed"]
                       /\ UNCHANGED <<dir, touched>>
    /\ overtaken' = (overtaken \/ (task'[i] # "streaming" /\ Overtakes(i)))
    /\ UNCHANGED <<remote, listFile, command, pc, emoji_list, poolSize, joined, downloaded,
                   upVars, callVars, apiCalls, stages, listStatus, dir0, listFile0,
                   listed, clean>>

StreamOutcomes == {"complete", "stream_error"}

\* download_emoji: the iter_content / f.write loop; an exception in it is
\* caught, printed, and the task returns None
DownloadStream(i) ==
    /\ pc = "join"
    /\ task[i] = "streaming"
    /\ \E outcome \in StreamOutcomes :
         task' = [task EXCEPT ![i] = IF outcome = "complete" THEN "ok" ELSE "failed"]
    /\ overtaken' = (overtaken \/ Overtakes(i))
    /\ UNCHANGED <<fsVars, command, pc, emoji_list, poolSize, joined, downloaded,
                   upVars, callVars, apiCalls, stages, listStatus, dir0, listFile0,
                   touched, listed, clean>>

\* The value of the i-th future: (name, output_file) or None
FutureResult(i) ==
    IF task[i] = "ok"
    THEN <<emoji_list[i][1], output_file(emoji_list[i][1], emoji_list[i][2])>>
    ELSE <<>>

\* Faulty variant: a failed task discards the results collected before it
CollectResult_reset(acc, res) == IF res # <<>> THEN Append(acc, res) ELSE <<>>

\* Faulty variant: a result is put in front of the results collected so far
CollectResult_prepend(acc, res) == IF res # <<>> THEN <<res>> \o acc ELSE acc
\* for future in futures: result = future.result(); if result: append
CollectResult(acc, res) == IF res # <<>> THEN Append(acc, res) ELSE acc

JoinNext ==
    /\ pc = "join"
    /\ joined < Len(task)
    /\ Finished(joined + 1)
    /\ downloaded' = CollectResult(downloaded, FutureResult(joined + 1))
    /\ joined' = joined + 1
    /\ UNCHANGED <<fsVars, command, pc, emoji_list, poolSize, task,
                   upVars, callVars, histVars>>

\* Where main continues after download_emojis returns
AfterDownload(cmd) == IF cmd = "export" THEN "export_upload" ELSE "done"

\* History: the directory was empty when the run started, the catalog is
\* the one list_emojis wrote, and every entry was downloaded successfully
CleanDownload ==
    /\ dir0 = {}
    /\ listed
    /\ \A i \in 1..Len(task) : task[i] = "ok"

\* Faulty variant: download_emojis returns without waiting for the futures
DownloadReturn_early ==
    /\ pc = "join"
    /\ pc' = AfterDownload(command)
    /\ clean' = CleanDownload
    /\ UNCHANGED <<fsVars, command, emoji_list, poolSize, dlVars, upVars, callVars,
                   apiCalls, stages, listStatus, dir0, listFile0, touched,
                   overtaken, listed>>
\* End of the with block (every future joined) and return downloaded
DownloadReturn ==
    /\ pc = "join"
    /\ joined = Len(task)
    /\ pc' = AfterDownload(command)
    /\ clean' = CleanDownload
    /\ UNCHANGED <<fsVars, command, emoji_list, poolSize, dlVars, upVars, callVars,
                   apiCalls, stages, listStatus, dir0, listFile0, touched,
                   overtaken, listed>>


(***************************************************************************)
(* upload_emojis and upload_emoji                                          *)
(***************************************************************************)

\* The orders in which a directory scan can yield the files of a set
Orders(S) == {q \in [1..Cardinality(S) -> S] : \A i, j \in 1..Cardinality(S) :
                                                  i # j => q[i] # q[j]}

\* emoji_files after the four glob calls: the matches of each pattern, in
\* pattern order; within one pattern the order is the directory's
Scans(files) ==
    {a \o b \o c \o d : a \in Orders(glob(files, GLOB_EXTS[1])),
                        b \in Orders(glob(files, GLOB_EXTS[2])),
                        c \in Orders(glob(files, GLOB_EXTS[3])),
                        d \in Orders(glob(files, GLOB_EXTS[4]))}

UploadEmojis ==
    /\ pc = "upload_emojis"
    /\ emoji_files' \in Scans(dir)
    /\ uploaded' = 0 /\ failed' = 0 /\ idx' = 0
    /\ stages' = Append(stages, "upload")
    /\ pc' = "upload_loop"
    /\ UNCHANGED <<fsVars, command, emoji_list, poolSize, dlVars, returned, calls,
                   results, paced, delay, callVars, apiCalls, listStatus, dir0, listFile0,
                   touched, overtaken, listed, clean>>

max_retries == 5

\* Faulty variant: the backoff of the previous item is carried over
UploadCall_keeps_backoff ==
    /\ pc = "upload_loop"
    /\ idx < Len(emoji_files)
    /\ calls' = Append(calls, stem(emoji_files[idx + 1]))
    /\ attempts' = 0 /\ result' = FALSE
    /\ backoff' = IF backoff = 0 THEN 1 ELSE backoff
    /\ sleeps' = <<>> /\ seen' = NoneSeen /\ last' = NONE
    /\ delay' = 0
    /\ pc' = "upload_emoji"
    /\ UNCHANGED <<fsVars, command, emoji_list, poolSize, dlVars, emoji_files, idx,
                   uploaded, failed, returned, results, paced, histVars>>
\* for file_path in emoji_files: name = file_path.stem; upload_emoji(...)
\* and the initialisation of upload_emoji
UploadCall ==
    /\ pc = "upload_loop"
    /\ idx < Len(emoji_files)
    /\ calls' = Append(calls, stem(emoji_files[idx + 1]))
    /\ attempts' = 0 /\ backoff' = 1 /\ result' = FALSE
    /\ sleeps' = <<>> /\ seen' = NoneSeen /\ last' = NONE
    /\ delay' = 0
    /\ pc' = "upload_emoji"
    /\ UNCHANGED <<fsVars, command, emoji_list, poolSize, dlVars, emoji_files, idx,
                   uploaded, failed, returned, results, paced, histVars>>

\* Faulty variant: a linear instead of a doubling backoff
next_backoff_linear(b) == b + 1

\* backoff *= 2
next_backoff(b) == b * 2

\* Faulty variant: the loop allows one attempt more
LoopContinues_once_more(n) == n < max_retries + 1
\* while attempts < max_retries
LoopContinues(n) == n < max_retries

\* The rest of the state is untouched by one iteration of the retry loop
CallFrame ==
    UNCHANGED <<fsVars, command, emoji_list, poolSize, dlVars, upVars, histVars>>

\* time.sleep(backoff); backoff *= 2; then the loop test: another
\* iteration, or the return False after the loop
SleepAndRetry ==
    /\ sleeps' = Append(sleeps, backoff)
    /\ backoff' = next_backoff(backoff)
    /\ IF LoopContinues(attempts')
       THEN pc' = "upload_emoji" /\ UNCHANGED result
       ELSE pc' = "pace" /\ result' = FALSE

\* response.ok and data.get("ok"): return True
UploadOk ==
    /\ pc = "upload_emoji" /\ LoopContinues(attempts)
    /\ attempts' = attempts + 1
    /\ last' = "ok_true"
    /\ result' = TRUE
    /\ pc' = "pace"
    /\ UNCHANGED <<backoff, sleeps, seen>>
    /\ CallFrame

RateLimitResponses == {"ratelimited", "http429"}

\* response.ok with error == "ratelimited" (sleep, double, continue), or
\* status 429 (sleep, double)
UploadRateLimited ==
    /\ pc = "upload_emoji" /\ LoopContinues(attempts)
    /\ attempts' = attempts + 1
    /\ \E r \in RateLimitResponses :
         /\ last' = r
         /\ seen' = [seen EXCEPT ![r] = @ + 1]
    /\ SleepAndRetry
    /\ CallFrame

\* Faulty variant: any API error is retried like "ratelimited"
UploadApiError_retries ==
    /\ pc = "upload_emoji" /\ LoopContinues(attempts)
    /\ attempts' = attempts + 1
    /\ last' = "api_error"
    /\ UNCHANGED seen
    /\ SleepAndRetry
    /\ CallFrame
\* response.ok with another error code: print, return False
UploadApiError ==
    /\ pc = "upload_emoji" /\ LoopContinues(attempts)
    /\ attempts' = attempts + 1
    /\ last' = "api_error"
    /\ result' = FALSE
    /\ pc' = "pace"
    /\ UNCHANGED <<backoff, sleeps, seen>>
    /\ CallFrame

\* Faulty variant: the branch sleeps without testing attempts < max_retries
UploadHttpError_unguarded ==
    /\ pc = "upload_emoji" /\ LoopContinues(attempts)
    /\ attempts' = attempts + 1
    /\ last' = "http_error"
    /\ seen' = [seen EXCEPT !["http_error"] = @ + 1]
    /\ SleepAndRetry
    /\ CallFrame
\* any other non-OK status: sleep and retry if attempts < max_retries,
\* else return False
UploadHttpError ==
    /\ pc = "upload_emoji" /\ LoopContinues(attempts)
    /\ attempts' = attempts + 1
    /\ last' = "http_error"
    /\ seen' = [seen EXCEPT !["http_error"] = @ + 1]
    /\ IF attempts' < max_retries
       THEN SleepAndRetry
       ELSE pc' = "pace" /\ result' = FALSE /\ UNCHANGED <<backoff, sleeps>>
    /\ CallFrame

PostExceptions == {"net_error", "bad_json"}

\* session.post raises (connection error, timeout) or response.json()
\* raises on an OK response: nothing in upload_emoji, upload_emojis or main
\* catches it
UploadRaises ==
    /\ pc = "upload_emoji" /\ LoopContinues(attempts)
    /\ attempts' = attempts + 1
    /\ \E r \in PostExceptions : last' = r
    /\ pc' = "crashed"
    /\ UNCHANGED <<backoff, result, sleeps, seen>>
    /\ CallFrame

\* 1 + random.uniform(0.5, 2.0), in tenths of a second
PACE_BASE == 10
Jitters == {5, 20}

\* if upload_emoji(...): uploaded += 1 else: failed += 1; then the pacing sleep
\* Faulty variant: every item is counted as uploaded
CountUploaded_always(n, ok) == n + 1

CountUploaded(n, ok) == IF ok THEN n + 1 ELSE n
CountFailed(n, ok) == IF ok THEN n ELSE n + 1

\* Faulty variant: no pacing sleep after the last item
UploadPace_not_after_last ==
    /\ pc = "pace"
    /\ uploaded' = CountUploaded(uploaded, result)
    /\ failed' = CountFailed(failed, result)
    /\ results' = Append(results, result)
    /\ IF idx + 1 < Len(emoji_files)
       THEN /\ \E j \in Jitters : delay' = PACE_BASE + j
            /\ paced' = paced + 1
       ELSE UNCHANGED <<delay, paced>>
    /\ idx' = idx + 1
    /\ pc' = "upload_loop"
    /\ UNCHANGED <<fsVars, command, emoji_list, poolSize, dlVars, emoji_files, returned,
                   calls, callVars, histVars>>
UploadPace ==
    /\ pc = "pace"
    /\ uploaded' = CountUploaded(uploaded, result)
    /\ failed' = CountFailed(failed, result)
    /\ results' = Append(results, result)
    /\ \E j \in Jitters : delay' = PACE_BASE + j
    /\ paced' = paced + 1
    /\ idx' = idx + 1
    /\ pc' = "upload_loop"
    /\ UNCHANGED <<fsVars, command, emoji_list, poolSize, dlVars, emoji_files, returned,
                   calls, callVars, histVars>>

\* print the summary; return uploaded
UploadReturn ==
    /\ pc = "upload_loop"
    /\ idx = Len(emoji_files)
    /\ returned' = uploaded
    /\ pc' = "done"
    /\ UNCHANGED <<fsVars, command, emoji_list, poolSize, dlVars, emoji_files, idx,
                   uploaded, failed, calls, results, paced, delay, callVars, histVars>>

(***************************************************************************)
(* The program, run any number of times on one working directory         *)
(***************************************************************************)

Next ==
    \/ \E cmd \in Commands : Start(cmd)
    \/ MainNoCommand
    \/ MainList
    \/ MainDownload
    \/ MainUpload
    \/ MainExport
    \/ MainExportUpload
    \/ MainLoad
    \/ ListEmojisFail
    \/ ListEmojisOk
    \/ DownloadEmojis
    \/ \E i \in 1..Len(task) : WorkerStart(i)
    \/ \E i \in 1..Len(task) : DownloadRequest(i)
    \/ \E i \in 1..Len(task) : DownloadStream(i)
    \/ JoinNext
    \/ DownloadReturn
    \/ UploadEmojis
    \/ UploadCall
    \/ UploadOk
    \/ UploadRateLimited
    \/ UploadApiError
    \/ UploadHttpError
    \/ UploadRaises
    \/ UploadPace
    \/ UploadReturn

Spec == Init /\ [][Next]_vars

(***************************************************************************)
(* download_emojis alone, on any catalog and with any pool size            *)
(***************************************************************************)

\* Largest catalog handed to download_emojis
MaxEmoji == 3

NamePool == << <<"s">>, <<"p">>, <<"t">>, <<"u">>, <<"v">> >>
FetchNames == {NamePool[i] : i \in 1..MaxEmoji}
FetchUrls == {U_GIFQ, U_ALIAS}

\* Largest pool size tried besides max_workers
MaxPool == 2

InitDownload ==
    /\ remote = <<>>
    /\ listFile = MISSING
    /\ dir = {}
    /\ command = "download" /\ pc = "download_emojis"
    /\ poolSize \in (1..MaxPool) \cup {max_workers}
    /\ task = <<>> /\ joined = 0 /\ downloaded = <<>>
    /\ emoji_files = <<>> /\ idx = 0 /\ uploaded = 0 /\ failed = 0
    /\ returned = -1 /\ calls = <<>> /\ results = <<>> /\ paced = 0 /\ delay = 0
    /\ NoCall
    /\ apiCalls = 0 /\ stages = <<>> /\ listStatus = NONE /\ touched = {}
    /\ overtaken = FALSE
    /\ emoji_list \in Mappings(FetchNames, FetchUrls, MaxEmoji)
    /\ dir0 = dir /\ listFile0 = listFile
    /\ listed = FALSE /\ clean = FALSE

NextDownload ==
    \/ DownloadEmojis
    \/ \E i \in 1..Len(task) : WorkerStart(i)
    \/ \E i \in 1..Len(task) : DownloadRequest(i)
    \/ \E i \in 1..Len(task) : DownloadStream(i)
    \/ JoinNext
    \/ DownloadReturn

SpecDownload == InitDownload /\ [][NextDownload]_vars

(***************************************************************************)
(* upload_emojis alone, on any directory, with a main thread that keeps    *)
(* running: a sleep ends and a POST returns a response or raises           *)
(***************************************************************************)

\* Largest number of files in the scanned directory
MaxFiles == 2

FilePool == << F_MANUAL, output_file(N_SMILE, U_PNG), output_file(N_PARTY, U_IMAGE),
               output_file(N_SMILE, U_GIFQ) >>
UploadFiles == {FilePool[i] : i \in 1..MaxFiles}

InitUpload ==
    /\ remote = <<>>
    /\ listFile = MISSING
    /\ dir \in SUBSET UploadFiles
    /\ command = "upload" /\ pc = "upload_emojis"
    /\ poolSize = max_workers
    /\ FreshProcess
    /\ dir0 = dir /\ listFile0 = listFile
    /\ listed = FALSE /\ clean = FALSE

NextUpload ==
    \/ UploadEmojis
    \/ UploadCall
    \/ UploadOk
    \/ UploadRateLimited
    \/ UploadApiError
    \/ UploadHttpError
    \/ UploadRaises
    \/ UploadPace
    \/ UploadReturn

SpecUpload == InitUpload /\ [][NextUpload]_vars /\ WF_vars(NextUpload)


(***************************************************************************)
(* Properties                                                              *)
(***************************************************************************)

Range(q) == {q[i] : i \in 1..Len(q)}

\* The files of a directory that upload_emojis is documented to pick up
ImageFiles(files) == UNION {glob(files, GLOB_EXTS[i]) : i \in 1..Len(GLOB_EXTS)}

\* A directory value that denotes an alias ("alias:<other-name>")
AliasValue(u) == Len(u) >= 6 /\ SubSeq(u, 1, 6) = <<"a", "l", "i", "a", "s", ":">>

\* The entries of a mapping that carry an image, and their names
NonAliasEntries(m) == {e \in Range(m) : ~AliasValue(e[2])}
NonAliasNames(m) == {e[1] : e \in NonAliasEntries(m)}

\* C1: an export run whose listing succeeded runs list_emojis, then
\* download_emojis, then upload_emojis, and upload_emoji is invoked for
\* every image file of the output directory.
C1_ExportRunsThreeStages ==
    (command = "export" /\ Terminated /\ listStatus = "ok") =>
        /\ stages = <<"list", "download", "upload">>
        /\ Range(emoji_files) = ImageFiles(dir)
        /\ Len(calls) = Cardinality(ImageFiles(dir))

\* C2: an upload_emoji call whose every attempt received HTTP 429 made 5
\* attempts, returned False and slept exactly 4 times: 1, 2, 4 and 8 seconds.
C2_Persistent429 ==
    (pc = "pace" /\ seen["http429"] = attempts) =>
        /\ attempts = 5
        /\ result = FALSE
        /\ sleeps = <<1, 2, 4, 8>>

\* C3: a call that received k rate-limit responses (429 or "ratelimited"),
\* k in 0..4, and then an OK response with ok=true returned True after
\* exactly k+1 attempts and k sleeps of 1, 2, ..., 2^(k-1) seconds.
C3_RateLimitedThenOk ==
    (pc = "pace" /\ last = "ok_true" /\ seen["http_error"] = 0) =>
        LET k == seen["ratelimited"] + seen["http429"] IN
        /\ k \in 0..4
        /\ result = TRUE
        /\ attempts = k + 1
        /\ sleeps = [i \in 1..k |-> 2 ^ (i - 1)]

C3_Witness ==
    /\ pc = "pace" /\ last = "ok_true" /\ result = TRUE
    /\ seen = [ratelimited |-> 2, http429 |-> 2, http_error |-> 0]
    /\ attempts = 5
    /\ sleeps = <<1, 2, 4, 8>>

\* C4: whatever fails for one item, a run that entered upload_emojis ends
\* with upload_emoji invoked for every scanned file, every failed item
\* counted as failed and the summary printed (upload_emojis returned).
C4_FailureNeverAborts ==
    (Terminated /\ "upload" \in Range(stages)) =>
        /\ Len(calls) = Len(emoji_files)
        /\ Len(results) = Len(emoji_files)
        /\ failed = Cardinality({i \in 1..Len(results) : ~results[i]})
        /\ returned = uploaded

\* C5: when download_emojis has returned, its list has exactly N - K
\* results for N image entries of which K failed: the (name, file) of every
\* entry that succeeded, and nothing for an entry that failed.
C5_FetchReturnsSuccesses ==
    (pc = "done" /\ "download" \in Range(stages)) =>
        LET entries == 1..Len(emoji_list)
            N == Cardinality({i \in entries : ~AliasValue(emoji_list[i][2])})
            K == Cardinality({i \in entries : task[i] = "failed"})
        IN  /\ Len(task) = Len(emoji_list)
            /\ Len(downloaded) = N - K
            /\ \A i \in entries :
                 (task[i] = "ok") <=>
                 (\E j \in 1..Len(downloaded) : downloaded[j][1] = emoji_list[i][1])
            /\ \A j \in 1..Len(downloaded) :
                 \E i \in entries :
                   /\ task[i] = "ok"
                   /\ downloaded[j] = <<emoji_list[i][1],
                                        emoji_list[i][1] \o extension_of(emoji_list[i][2])>>

C5_Witness ==
    /\ pc = "done"
    /\ poolSize = 2
    /\ task = <<"ok", "failed", "ok">>
    /\ Len(downloaded) = 2

\* C6: after a successful list_emojis the returned catalog and the catalog
\* in the list file are the same, and are exactly the entries of the
\* response whose value does not begin with "alias:".
C6_CatalogIsNonAliasPart ==
    (listStatus = "ok") =>
        /\ listFile = JsonFile(emoji_list)
        /\ Range(emoji_list) = NonAliasEntries(remote)
        /\ Len(emoji_list) = Cardinality(NonAliasEntries(remote))
        /\ \A e \in Range(emoji_list) : ~AliasValue(e[2])

C6_Witness ==
    /\ listStatus = "ok"
    /\ remote = << <<N_SMILE, U_IMAGE>>, <<N_PARTY, U_ALIAS>> >>
    /\ emoji_list = << <<N_SMILE, U_IMAGE>> >>
    /\ listFile = JsonFile(<< <<N_SMILE, U_IMAGE>> >>)

\* C7: when the directory request fails (non-OK status or ok=false) the
\* process has exited with a non-zero status after that single request, the
\* list file is as it was, and nothing was downloaded or uploaded.
C7_ListFailureIsFatal ==
    (listStatus \in DirectoryFailures) =>
        /\ pc = "exit1" /\ ExitCode # 0
        /\ apiCalls = 1
        /\ listFile = listFile0
        /\ stages = <<"list">>
        /\ task = <<>> /\ dir = dir0 /\ touched = {}
        /\ emoji_files = <<>> /\ calls = <<>>

C7_Witness ==
    /\ listStatus = "api_error"
    /\ command = "export"
    /\ pc = "exit1"
    /\ listFile = STALE

\* C8: in the download command, once download_emojis has started: if the
\* list file was missing, the directory was requested exactly once, the
\* filtered catalog is in the list file and is the catalog downloaded; if
\* the file existed, no request was made, the file is unmodified and the
\* catalog downloaded is the one stored in it.
C8_DownloadListFile ==
    (command = "download" /\ "download" \in Range(stages)) =>
        /\ Len(task) = Len(emoji_list)
        /\ IF listFile0 = MISSING
           THEN /\ apiCalls = 1
                /\ stages = <<"list", "download">>
                /\ listFile = JsonFile(emoji_list)
                /\ Range(emoji_list) = NonAliasEntries(remote)
           ELSE /\ apiCalls = 0
                /\ stages = <<"download">>
                /\ listFile = listFile0
                /\ emoji_list = listFile0.data

C8_Witness ==
    /\ command = "download" /\ pc = "done"
    /\ listFile0 = STALE
    /\ remote = << <<N_SMILE, U_IMAGE>> >>
    /\ downloaded = << <<N_PARTY, <<"p", ".", "p", "n", "g">> >> >>

\* C9: after list, then a download into an empty directory in which every
\* entry succeeded, then upload: the directory holds exactly one file per
\* non-alias entry of the source mapping, and upload_emoji was invoked
\* exactly once per non-alias entry, with that entry's name.
C9_EndToEnd ==
    (command = "upload" /\ Terminated /\ clean) =>
        /\ Cardinality(dir) = Cardinality(NonAliasEntries(remote))
        /\ {stem(f) : f \in dir} = NonAliasNames(remote)
        /\ Len(calls) = Cardinality(NonAliasEntries(remote))
        /\ Range(calls) = NonAliasNames(remote)

\* C10: when upload_emojis has returned, its return value is the number of
\* upload_emoji calls that returned True, and uploaded + failed is the
\* number of files scanned, each counted once.
C10_ReturnCountsSuccesses ==
    (returned # -1) =>
        /\ Len(results) = Len(emoji_files)
        /\ returned = Cardinality({i \in 1..Len(results) : results[i]})
        /\ failed = Cardinality({i \in 1..Len(results) : ~results[i]})
        /\ uploaded + failed = Len(emoji_files)

C10_Witness ==
    /\ returned = 1
    /\ failed = 1
    /\ Len(emoji_files) = 2
    /\ results = <<FALSE, TRUE>>

(***************************************************************************)
(* C11: whatever responses the POSTs of one upload_emoji call receive      *)
(* (success, API "ratelimited", another API error, 429, another non-OK     *)
(* status), the call issues at most five POSTs, it returns True only when  *)
(* its last POST was answered OK with ok = true, and it always ends: with  *)
(* the main thread running, a call in progress leads to its return (or,    *)
(* outside the responses the claim lists, to the exception of a POST)      *)
(***************************************************************************)
C11_UploadTerminates ==
    /\ [](attempts <= max_retries)
    /\ []((pc = "pace" /\ result) => (last = "ok_true"))
    /\ [](pc = "pace" => result \in BOOLEAN /\ last \notin PostExceptions)
    /\ (pc = "upload_emoji") ~> (pc = "pace" \/ last \in PostExceptions)

\* A call that used all five attempts on a mix of retryable responses and
\* returned False
C11_Witness ==
    /\ pc = "pace" /\ attempts = max_retries /\ result = FALSE
    /\ seen["ratelimited"] = 2 /\ seen["http429"] = 1 /\ seen["http_error"] = 2

\* Number of retryable responses the current call has received
Retried == seen["ratelimited"] + seen["http429"] + seen["http_error"]

(***************************************************************************)
(* C12: an HTTP-OK response with ok = false and an error other than        *)
(* "ratelimited" ends the call at that attempt with False: the call is no  *)
(* longer in its loop, the POSTs are the earlier retried ones and this     *)
(* one, and the sleeps are those of the earlier responses only             *)
(***************************************************************************)
C12_ApiErrorReturnsAtOnce ==
    (last = "api_error") =>
        /\ pc \in {"pace", "upload_loop", "done"}
        /\ result = FALSE
        /\ attempts = Retried + 1
        /\ Len(sleeps) = Retried

\* The second attempt of a call is answered with an API error, three
\* attempts remaining
C12_Witness ==
    /\ pc = "pace" /\ last = "api_error" /\ result = FALSE
    /\ attempts = 2 /\ sleeps = <<1>>

(***************************************************************************)
(* C13: a non-OK status other than 429 received by one of the first four   *)
(* attempts is followed by a sleep of the current backoff and the call     *)
(* stays in its loop for another attempt; received by the fifth attempt    *)
(* it ends the call with False and without a fifth sleep                   *)
(***************************************************************************)
C13_HttpErrorRetries ==
    (last = "http_error") =>
        IF attempts < max_retries
        THEN /\ pc = "upload_emoji"
             /\ Len(sleeps) = attempts
             /\ sleeps[attempts] = 2 ^ (attempts - 1)
             /\ backoff = next_backoff(sleeps[attempts])
        ELSE /\ pc \in {"pace", "upload_loop", "done"}
             /\ result = FALSE
             /\ attempts = max_retries
             /\ Len(sleeps) = max_retries - 1

\* The fifth attempt receives a non-OK status after four retried ones
C13_Witness ==
    /\ pc = "pace" /\ last = "http_error" /\ attempts = max_retries
    /\ seen["http_error"] = max_retries /\ sleeps = <<1, 2, 4, 8>>

(***************************************************************************)
(* C14: in one call the i-th backoff sleep lasts 2^(i-1) seconds whatever  *)
(* retryable responses caused the sleeps, so the sleeps are a prefix of    *)
(* 1, 2, 4, 8, 16; the backoff is the double of the last sleep, and it is  *)
(* 1 again when the call for the next item starts                          *)
(***************************************************************************)
C14_BackoffDoubles ==
    /\ Len(sleeps) <= max_retries
    /\ \A i \in 1..Len(sleeps) : sleeps[i] = 2 ^ (i - 1)
    /\ (pc = "upload_emoji") => (backoff = 2 ^ Len(sleeps))
    /\ (pc = "upload_emoji" /\ attempts = 0) => (backoff = 1)

\* The call for the second item has slept 1 and 2 seconds, after one
\* response of each of two retryable kinds
C14_Witness ==
    /\ pc = "upload_emoji" /\ Len(calls) = 2 /\ Len(results) = 1
    /\ seen["ratelimited"] = 1 /\ seen["http_error"] = 1
    /\ sleeps = <<1, 2>> /\ backoff = 4

(***************************************************************************)
(* C15: uploads are sequential and paced.  At most one upload_emoji call   *)
(* is unfinished at any time; when a call returns, one pacing sleep per    *)
(* earlier item has occurred and the sleep for this item is still to       *)
(* come; when the attempts of the next item start, and when upload_emojis  *)
(* returns after the last item, exactly one pacing sleep per finished      *)
(* item has occurred; every pacing sleep lasts between 1.5 and 3.0         *)
(* seconds, however many backoff sleeps the item needed                    *)
(***************************************************************************)
C15_SequentialAndPaced ==
    /\ Len(calls) = Len(results) + (IF pc \in {"upload_emoji", "pace", "crashed"} THEN 1 ELSE 0)
    /\ Len(results) = idx
    /\ (pc \in {"upload_emoji", "pace"}) => (paced = Len(calls) - 1)
    /\ (pc \in {"upload_loop", "done"}) => (paced = Len(calls))
    /\ (pc = "done" /\ returned >= 0) => (paced = Len(emoji_files))
    /\ (pc \in {"upload_loop", "done"} /\ idx > 0) => (delay >= 15 /\ delay <= 30)

\* upload_emojis has returned after two items, the first uploaded and the
\* second failed after backoff sleeps; the sleep after the last item was
\* the longest pacing sleep
C15_Witness ==
    /\ pc = "done" /\ Len(emoji_files) = 2 /\ results = <<TRUE, FALSE>>
    /\ paced = 2 /\ delay = 30 /\ sleeps = <<1, 2, 4, 8, 16>>

\* Position of the entry called name in the catalog given to download_emojis
Submitted(name) == CHOOSE i \in 1..Len(emoji_list) : emoji_list[i][1] = name

(***************************************************************************)
(* C16: the list download_emojis builds and returns is in the order in     *)
(* which the entries were submitted, in whatever order the workers end:    *)
(* every result belongs to an entry of the catalog, and of two results     *)
(* the one that comes first in the list was submitted first                *)
(***************************************************************************)
C16_SubmissionOrder ==
    /\ \A j \in 1..Len(downloaded) :
         \E i \in 1..Len(emoji_list) : emoji_list[i][1] = downloaded[j][1]
    /\ \A j, k \in 1..Len(downloaded) :
         (j < k) => (Submitted(downloaded[j][1]) < Submitted(downloaded[k][1]))

\* download_emojis has returned three results although a task ended before
\* one submitted earlier
C16_Witness ==
    /\ pc = "done" /\ overtaken
    /\ task = <<"ok", "ok", "ok">>
    /\ Len(downloaded) = 3
    /\ \A i \in 1..3 : downloaded[i][1] = emoji_list[i][1]

\* How far download_emojis has got: every step of a task, of the joining
\* loop and of the call itself adds to it
Progress ==
    Cardinality({i \in 1..Len(task) : task[i] # "queued"})
    + Cardinality({i \in 1..Len(task) : task[i] \notin {"queued", "running"}})
    + Cardinality({i \in 1..Len(task) : task[i] \in {"ok", "failed", "none"}})
    + joined
    + (IF pc = "download_emojis" THEN 0 ELSE 1)
    + (IF pc = "join" \/ pc = "download_emojis" THEN 0 ELSE 1)

\* While the futures are being joined some thread can take a step: a worker
\* is in a task, or a thread of the pool is free for the oldest queued
\* task, or the future the main thread waits for is done
CanStep ==
    \/ Active # {}
    \/ /\ \E i \in 1..Len(task) : task[i] = "queued"
       /\ Cardinality(Active) < poolSize
    \/ joined < Len(task) /\ Finished(joined + 1)
    \/ joined = Len(task)

(***************************************************************************)
(* C17: at most max_workers = 10 download_emoji tasks run at the same      *)
(* time (never more than the size of the pool, which is at most 10); a     *)
(* task starts only from the queue and only while fewer tasks than the     *)
(* pool has threads are running, it is never started again, and a          *)
(* finished task stays finished.  Every submitted task gets executed:      *)
(* until download_emojis returns some thread can always take a step,       *)
(* every step brings the call nearer to its end, and when it has returned  *)
(* every task has been run to its end                                      *)
(***************************************************************************)
C17_BoundedPool ==
    /\ [](Cardinality(Active) <= poolSize /\ poolSize <= max_workers)
    /\ [][\A i \in 1..Len(task) :
            /\ (task[i] # "queued") => (task'[i] # "queued")
            /\ (task[i] \in {"ok", "failed", "none"}) => (task'[i] = task[i])
            /\ (task[i] # "running" /\ task'[i] = "running") =>
                   (task[i] = "queued" /\ Cardinality(Active) < poolSize)]_vars
    /\ []((pc = "join") => CanStep)
    /\ [][Progress' > Progress]_vars
    /\ [](Progress <= 4 * Len(emoji_list) + 2)
    /\ []((pc = "done") => (/\ Len(task) = Len(emoji_list)
                            /\ \A i \in 1..Len(task) : Finished(i)))

\* A pool of two threads is fully busy while a third task waits in the queue
C17_Witness ==
    /\ poolSize = 2 /\ Cardinality(Active) = 2
    /\ Len(task) = 3 /\ task[3] = "queued"

\* The file the i-th task of download_emojis writes
TaskFile(i) == output_file(emoji_list[i][1], emoji_list[i][2])

(***************************************************************************)
(* C18: no two workers write the same file.  Two different entries of the  *)
(* catalog have different names, and their output files                    *)
(* <name><extension> differ whatever their extensions are, the ".png"      *)
(* default included; in particular the files of two tasks that are         *)
(* running at the same time differ                                         *)
(***************************************************************************)
C18_DistinctFiles ==
    /\ \A i, j \in 1..Len(emoji_list) :
         (i # j) => /\ emoji_list[i][1] # emoji_list[j][1]
                    /\ TaskFile(i) # TaskFile(j)
    /\ \A i, j \in Active : (i # j) => (TaskFile(i) # TaskFile(j))

\* Two workers are writing at the same time, both to a file with the
\* default extension
C18_Witness ==
    /\ Len(task) = 2 /\ task[1] = "streaming" /\ task[2] = "streaming"
    /\ extension_of(emoji_list[1][2]) = DEFAULT_EXT
    /\ extension_of(emoji_list[2][2]) = DEFAULT_EXT
    /\ splitext_ext(urlparse_path(emoji_list[1][2])) = <<>>
    /\ Cardinality({TaskFile(1), TaskFile(2)} \cap dir) = 2

(***************************************************************************)
(* C19: download_emojis returns only when every submitted task has         *)
(* finished: outside the joining of the futures no task is queued or       *)
(* running, and after the return every entry's task has been joined.  So   *)
(* in an export run nothing that follows the download stage, neither the   *)
(* scan of the output directory nor an upload attempt, happens while a     *)
(* download worker is running or writing                                   *)
(***************************************************************************)
C19_ReturnAfterAllTasks ==
    /\ (pc # "join") => (\A i \in 1..Len(task) : Finished(i))
    /\ (pc # "join" /\ "download" \in Range(stages)) =>
           (joined = Len(task) /\ Len(task) = Len(emoji_list))
    /\ ("upload" \in Range(stages) \/ pc \in {"export_upload", "upload_emojis"}) =>
           (Active = {})

\* An export run has left download_emojis, after both workers ended, the
\* second before the first
C19_Witness ==
    /\ command = "export" /\ pc = "export_upload"
    /\ Len(task) = 2 /\ task[1] = "ok" /\ task[2] = "failed"
    /\ overtaken /\ joined = 2

(***************************************************************************)
(* C20: a failed download leaves no file behind: when download_emojis has  *)
(* returned, the files this run created or truncated are exactly the       *)
(* paths of the returned list, so that each of them belongs to an entry    *)
(* whose download succeeded                                                *)
(***************************************************************************)
C20_FailureLeavesNoFile ==
    (pc \in {"done", "export_upload"} /\ "download" \in Range(stages)) =>
        touched = {downloaded[j][2] : j \in 1..Len(downloaded)}

====
